---- MODULE Spec2Model ----
(***************************************************************************)
(* A model of the concurrent caching web proxy: the acceptor loop of main, *)
(* one detached thread per accepted connection running doit, and the LRU   *)
(* cache (cache_check, cache_insert, cache_block_evict, LRU_get,           *)
(* increase_time, cache_block_find, insert_head) guarded by cacheLock.     *)
(*                                                                         *)
(* Sizes are counted in abstract units: MAX_CACHE_SIZE and MAX_OBJECT_SIZE *)
(* are scaled down from 1024*1024 and 100*1024 bytes, keeping              *)
(* 0 < MAX_OBJECT_SIZE < MAX_CACHE_SIZE.  Strings are sequences of         *)
(* non-zero character codes; the terminating NUL is the code 0 read        *)
(* beyond the end.                                                         *)
(***************************************************************************)
EXTENDS Integers, Sequences, FiniteSets, TLC

\* ------------------------------------------------------------------ bounds
MAX_CACHE_SIZE == 3
MAX_OBJECT_SIZE == 2
\* the chunk size of one rio_readnb in doit's relay loop
MAXLINE == 2
\* connections accepted in a run, and how many threads are alive at once
MaxConn == 3
MaxActive == 2
\* connections accepted in a run of the proxy that serves one client at a time
MaxSeqConn == 4
\* heap cells available for cache_block_t
MaxAddr == 4

NULL == 0
Workers == 1..MaxActive
Addr == 1..MaxAddr

\* ----------------------------------------------------------------- strings
URL_A == <<1>>
URL_AB == <<1, 2>>
URL_B == <<2>>
URLS == {URL_A, URL_AB, URL_B}

CharAt(s, i) == IF i <= Len(s) THEN s[i] ELSE 0

strlen(s) == Len(s)

RECURSIVE strncmp_from(_, _, _, _)
strncmp_from(s1, s2, n, i) ==
    IF i > n THEN 0
    ELSE IF CharAt(s1, i) # CharAt(s2, i) THEN CharAt(s1, i) - CharAt(s2, i)
    ELSE IF CharAt(s1, i) = 0 THEN 0
    ELSE strncmp_from(s1, s2, n, i + 1)

\* strncmp(s1, s2, n): compares at most n characters, stopping at a NUL
strncmp(s1, s2, n) == strncmp_from(s1, s2, n, 1)

\* strcmp(s1, s2): compares up to and including the terminating NUL
strcmp(s1, s2) == strncmp_from(s1, s2, Len(s1) + Len(s2) + 1, 1)

tolower(m) ==
    CASE m = "GET" -> "get"
      [] m = "POST" -> "post"
      [] OTHER -> m

\* a comparison of the method that finds every method equal to GET
any_method(a, b) == 0

strcasecmp(a, b) == IF tolower(a) = tolower(b) THEN 0 ELSE 1

\* ------------------------------------------------------------------ inputs
Bytes(n, b) == [i \in 1..n |-> b]

\* what an origin may answer: a small body, one of the largest cacheable size and
\* one that is one unit too large to cache
OriginResponses ==
    {Bytes(1, 1), Bytes(MAX_OBJECT_SIZE, 2), Bytes(MAX_OBJECT_SIZE + 1, 3)}

\* what a read of released storage may deliver
FreedReads == {<<0>>} \cup {r \in OriginResponses : Len(r) <= MAX_OBJECT_SIZE}

\* request lines a client may send: [ntok: tokens sscanf converts, method, uri]
RequestLines ==
    {[ntok |-> 1, method |-> "garbage", uri |-> <<>>],
     [ntok |-> 3, method |-> "POST", uri |-> URL_A],
     [ntok |-> 3, method |-> "get", uri |-> URL_A]}
    \cup {[ntok |-> 3, method |-> "GET", uri |-> u] : u \in URLS}

\* ------------------------------------------------------------------- state
VARIABLES
    head,              \* the list from head along next: a sequence of addresses
    heap,              \* Addr -> cache_block_t cell (live or released)
    total_cache_size,
    cacheLock,         \* the thread holding the mutex, NULL when free
    pc,                \* Workers -> where the thread is
    thr,               \* Workers -> the thread's locals
    nconn,             \* connections accepted by main so far
    recency,           \* ghost: the entries of the store, most recently accessed first
    last_miss          \* ghost: the miss that filled the empty store, if no cache
                       \* operation but the lookup that follows it came since

vars == <<head, heap, total_cache_size, cacheLock, pc, thr, nconn, recency, last_miss>>

FreeCell ==
    [live |-> FALSE, url |-> <<>>, body |-> <<>>, size |-> 0, LRU_cnt |-> 0, thread_cnt |-> 0]

InitLocals ==
    [ntok |-> 0,             \* doit: what sscanf returned, until the request is judged
     method |-> "",          \* doit: method, until the request is judged
     uri |-> <<>>,           \* doit: uri, the second token of the request line
     block |-> NULL,         \* cache_check: block
     cnt |-> 0,              \* cache_check: the value loaded for thread_cnt - 1
     new_block |-> NULL,     \* cache_insert: new_block
     parser |-> FALSE,       \* doit: parser allocated
     clientfd |-> FALSE,     \* doit: origin descriptor open
     connfd |-> 0,           \* thread: connfd, the descriptor handed to doit; 0 before
     fdpointer |-> 0,        \* main: *fdpointer, the cell made for this thread; 0 if none
     resp |-> <<>>,          \* bytes the origin has still to send
     cachebuf |-> <<>>,      \* doit: cachebuf[0 .. ]
     totalsize_cache |-> 0,  \* doit: totalsize_cache
     out |-> <<>>,           \* bytes written to the client descriptor
     evicted |-> 0]          \* ghost: blocks removed by this thread's cache_insert

\* the locals of a thread once doit has no further use for its buffers: only what
\* it has to release is kept
Returning(t) ==
    [InitLocals EXCEPT
        !.parser = t.parser, !.clientfd = t.clientfd,
        !.connfd = t.connfd, !.fdpointer = t.fdpointer, !.evicted = t.evicted]

ListSet(lst) == {lst[i] : i \in 1..Len(lst)}

\* ghost: no miss to remember.  Otherwise last_miss holds the uri of the handler that
\* missed and inserted into the empty store, the bytes it relayed to its client, and
\* reader, the thread whose lookup of that uri came next
NoMiss == [uri |-> <<>>, resp |-> <<>>, reader |-> NULL]

\* ------------------------------------------------------------------- cache
\* cache_init
Init ==
    /\ head = <<>>
    /\ heap = [a \in Addr |-> FreeCell]
    /\ total_cache_size = 0
    /\ cacheLock = NULL
    /\ pc = [w \in Workers |-> "idle"]
    /\ thr = [w \in Workers |-> InitLocals]
    /\ nconn = 0
    /\ recency = <<>>
    /\ last_miss = NoMiss

\* a lock that never makes a thread wait
lock_without_wait(w) == TRUE

\* pthread_mutex_lock returns only when the mutex is free
MutexAvailable(w) == cacheLock = NULL

\* an unlock that leaves the mutex with its holder
unlock_without_release(w) == w

\* pthread_mutex_unlock: the new holder
pthread_mutex_unlock(w) == NULL

\* a clock that stands still
no_tick(h, lst) == h

\* increase_time: every block of the list gets LRU_cnt + 1
increase_time(h, lst) ==
    [a \in Addr |-> IF a \in ListSet(lst) THEN [h[a] EXCEPT !.LRU_cnt = @ + 1] ELSE h[a]]

\* a test of one block that never succeeds
no_match(tmp_url, url) == FALSE

\* cache_block_find: the test of one block
matched(tmp_url, url) == strncmp(tmp_url, url, strlen(url)) = 0

RECURSIVE find_from(_, _, _, _)
find_from(h, lst, url, i) ==
    IF i > Len(lst) THEN NULL
    ELSE IF matched(h[lst[i]].url, url) THEN lst[i]
    ELSE find_from(h, lst, url, i + 1)

\* cache_block_find: the first block of the list that matches, or NULL
cache_block_find(h, lst, url) == find_from(h, lst, url, 1)

RECURSIVE LRU_scan(_, _, _, _, _)
LRU_scan(h, lst, i, max_cnt, max) ==
    IF i > Len(lst) THEN max
    ELSE IF max_cnt <= h[lst[i]].LRU_cnt
         THEN LRU_scan(h, lst, i + 1, h[lst[i]].LRU_cnt, lst[i])
         ELSE LRU_scan(h, lst, i + 1, max_cnt, max)

\* a choice of the block to remove that ignores LRU_cnt: the first of the list
first_of_list(h, lst) == IF lst = <<>> THEN NULL ELSE lst[1]

\* LRU_get: NULL on an empty list, else the last block holding the largest LRU_cnt
LRU_get(h, lst) == IF lst = <<>> THEN NULL ELSE LRU_scan(h, lst, 1, 0, lst[1])

\* a test for room that never finds any
never_room(total, size) == TRUE

\* a test for room that leaves out the size of the block to insert
full_without_size(total, size) == total > MAX_CACHE_SIZE

\* the test of cache_insert and of the loop of cache_block_evict
cache_full(total, size) == total + size > MAX_CACHE_SIZE

IndexOf(lst, a) == CHOOSE i \in 1..Len(lst) : lst[i] = a

\* cache_block_evict: the list after unlinking LRU_block, found by its url
unlink(h, lst, LRU_block) ==
    LET l == IndexOf(lst, LRU_block)
        after == SubSeq(lst, l + 1, Len(lst))
    IN IF strcmp(h[lst[1]].url, h[LRU_block].url) = 0
       THEN after
       ELSE LET p == CHOOSE i \in 1..(Len(lst) - 1) :
                         /\ strcmp(h[lst[i + 1]].url, h[LRU_block].url) = 0
                         /\ \A j \in 1..(i - 1) :
                                strcmp(h[lst[j + 1]].url, h[LRU_block].url) # 0
            IN SubSeq(lst, 1, p) \o after

\* malloc(sizeof(cache_block_t)): a released cell.  Cells no thread points to are
\* interchangeable, so one of them stands for all; a cell a thread still points to
\* may be handed out again as well.
Referenced(a) == \E w \in Workers : thr[w].block = a
FreeCells == {a \in Addr : ~heap[a].live}
malloc_choices ==
    {a \in FreeCells : Referenced(a)}
    \cup (LET fresh == {a \in FreeCells : ~Referenced(a)}
          IN IF fresh = {} THEN {} ELSE {CHOOSE a \in fresh : \A b \in fresh : a <= b})

\* ------------------------------------------------------------------ main
Idle == {w \in Workers : pc[w] = "idle"}

\* the descriptors of accepted connections that are open
OpenFds == {thr[w].fdpointer : w \in Workers} \ {0}

\* accept: the lowest descriptor that is not open
accept == CHOOSE fd \in 1..(MaxActive + 1) :
              fd \notin OpenFds /\ \A g \in 1..(fd - 1) : g \in OpenFds

\* main: accept, malloc of fdpointer, pthread_create.  Threads that are not alive
\* are interchangeable, so the new thread is the first of them.
Dispatch ==
    /\ Idle # {}
    /\ LET w == CHOOSE x \in Idle : \A y \in Idle : x <= y
       IN /\ pc' = [pc EXCEPT ![w] = "doit"]
          /\ thr' = [thr EXCEPT ![w].fdpointer = accept]
    /\ nconn' = nconn + 1
    /\ UNCHANGED <<head, heap, total_cache_size, cacheLock, recency, last_miss>>

\* a main that joins every thread before it accepts again
accept_after_join == nconn < MaxConn /\ Idle = Workers /\ Dispatch

\* clients connect whenever they like: main never waits for a thread
Accept == nconn < MaxConn /\ Dispatch

\* each client connects after the previous connection was served
AcceptSeq == nconn < MaxSeqConn /\ Idle = Workers /\ Dispatch

\* ------------------------------------------------------------------ doit
\* thread: *(int *)vargp, the cell main made for this thread
arg(w) == thr[w].fdpointer

\* thread: connfd = *(int *)vargp; doit(connfd):
\* rio_readlineb of the request line, sscanf, strcasecmp; on a malformed line or
\* another method clienterror writes the error page and doit returns
ReadRequest(w) ==
    /\ pc[w] = "doit"
    /\ \E line \in RequestLines :
        LET t == [thr[w] EXCEPT !.connfd = arg(w), !.ntok = line.ntok, !.method = line.method]
        IN IF line.ntok < 3
           THEN /\ thr' = [thr EXCEPT ![w] = [t EXCEPT !.out = <<400>>]]
                /\ pc' = [pc EXCEPT ![w] = "thread_close"]
           ELSE IF strcasecmp(line.method, "GET") # 0
           THEN /\ thr' = [thr EXCEPT ![w] = [t EXCEPT !.uri = line.uri, !.out = <<501>>]]
                /\ pc' = [pc EXCEPT ![w] = "thread_close"]
           ELSE /\ thr' = [thr EXCEPT ![w] = [t EXCEPT !.uri = line.uri]]
                /\ pc' = [pc EXCEPT ![w] = "cc_lock"]
    /\ UNCHANGED <<head, heap, total_cache_size, cacheLock, nconn, recency, last_miss>>

\* ----------------------------------------------------------- cache_check
\* ghost: a moved to the front of the access order
Touch(order, a) == <<a>> \o SelectSeq(order, LAMBDA x : x # a)

\* pthread_mutex_lock(&cacheLock); method and the count of sscanf are not read again
CacheCheckLock(w) ==
    /\ pc[w] = "cc_lock"
    /\ MutexAvailable(w)
    /\ cacheLock' = w
    /\ thr' = [thr EXCEPT ![w].ntok = 0, ![w].method = ""]
    /\ pc' = [pc EXCEPT ![w] = "cc_tick"]
    /\ UNCHANGED <<head, heap, total_cache_size, nconn, recency, last_miss>>

\* increase_time()
CacheCheckTick(w) ==
    /\ pc[w] = "cc_tick"
    /\ heap' = increase_time(heap, head)
    /\ pc' = [pc EXCEPT ![w] = "cc_find"]
    /\ UNCHANGED <<head, total_cache_size, cacheLock, thr, nconn, recency, last_miss>>

\* cache_block_find(url); on a hit thread_cnt + 1 and LRU_cnt = 0;
\* pthread_mutex_unlock(&cacheLock)
CacheCheckFind(w) ==
    /\ pc[w] = "cc_find"
    /\ LET b == cache_block_find(heap, head, thr[w].uri)
       IN IF b # NULL
          THEN /\ heap' = [heap EXCEPT ![b].thread_cnt = @ + 1, ![b].LRU_cnt = 0]
               /\ thr' = [thr EXCEPT ![w].block = b]
               /\ recency' = Touch(recency, b)
               /\ pc' = [pc EXCEPT ![w] = "hit_write"]
          ELSE /\ pc' = [pc EXCEPT ![w] = "connect"]
               /\ UNCHANGED <<heap, thr, recency>>
    /\ cacheLock' = pthread_mutex_unlock(w)
    /\ last_miss' =
          IF last_miss.reader = NULL /\ last_miss.uri # <<>> /\ last_miss.uri = thr[w].uri
          THEN [last_miss EXCEPT !.reader = w]
          ELSE NoMiss
    /\ UNCHANGED <<head, total_cache_size, nconn>>

\* rio_writen(fd, block->body, block->size), after the unlock: block may have been
\* released meanwhile, and its cell may hold another entry by now
HitWrite(w) ==
    /\ pc[w] = "hit_write"
    /\ \E bytes \in (IF heap[thr[w].block].live
                     THEN {heap[thr[w].block].body}
                     ELSE FreedReads) :
          thr' = [thr EXCEPT ![w].out = bytes]
    /\ pc' = [pc EXCEPT ![w] = "hit_load"]
    /\ UNCHANGED <<head, heap, total_cache_size, cacheLock, nconn, recency, last_miss>>

\* block->thread_cnt = block->thread_cnt - 1, the read of thread_cnt
HitLoad(w) ==
    /\ pc[w] = "hit_load"
    /\ \E v \in (IF heap[thr[w].block].live THEN {heap[thr[w].block].thread_cnt} ELSE {0, 1}) :
          thr' = [thr EXCEPT ![w].cnt = v]
    /\ pc' = [pc EXCEPT ![w] = "hit_store"]
    /\ UNCHANGED <<head, heap, total_cache_size, cacheLock, nconn, recency, last_miss>>

\* block->thread_cnt = block->thread_cnt - 1, the write; cache_check returns true
\* and doit returns
HitStore(w) ==
    /\ pc[w] = "hit_store"
    /\ heap' = IF heap[thr[w].block].live
               THEN [heap EXCEPT ![thr[w].block].thread_cnt = thr[w].cnt - 1]
               ELSE heap
    /\ thr' = [thr EXCEPT ![w] = Returning(thr[w])]
    /\ pc' = [pc EXCEPT ![w] = "thread_close"]
    /\ last_miss' = IF last_miss.reader = w THEN NoMiss ELSE last_miss
    /\ UNCHANGED <<head, total_cache_size, cacheLock, nconn, recency>>

\* ------------------------------------------------------- doit, the miss path
Min(a, b) == IF a <= b THEN a ELSE b

\* a turn of the relay loop that stores every chunk
relay_turn_unchecked(t, n) ==
    [t EXCEPT
        !.out = @ \o SubSeq(t.resp, 1, n),
        !.cachebuf = @ \o SubSeq(t.resp, 1, n),
        !.totalsize_cache = @ + n,
        !.resp = SubSeq(@, n + 1, Len(@))]

\* one turn of the relay loop on the locals t: rio_readnb gave n bytes, rio_writen
\* sends them to the client, memcpy stores them when they fit
relay_turn(t, n) ==
    [t EXCEPT
        !.out = @ \o SubSeq(t.resp, 1, n),
        !.cachebuf = IF t.totalsize_cache + n <= MAX_OBJECT_SIZE
                     THEN SubSeq(@, 1, t.totalsize_cache) \o SubSeq(t.resp, 1, n)
                     ELSE @,
        !.totalsize_cache = @ + n,
        !.resp = SubSeq(@, n + 1, Len(@))]

RECURSIVE relay_loop(_)
\* while ((n = rio_readnb(&server_rio, buf, MAXLINE)) != 0) ...
relay_loop(t) ==
    IF Min(MAXLINE, Len(t.resp)) = 0 THEN t
    ELSE relay_loop(relay_turn(t, Min(MAXLINE, Len(t.resp))))

\* a test after the relay loop that lets every response through
always_cacheable(totalsize) == TRUE

\* the test after the relay loop: if (totalsize_cache <= MAX_OBJECT_SIZE)
cacheable(totalsize) == totalsize <= MAX_OBJECT_SIZE

\* parser_new, parser_parse_line, open_clientfd: the origin cannot be reached and
\* doit returns; or it is, and forward_header, rio_writen of the header, the relay
\* loop and the test of totalsize_cache follow
Connect(w) ==
    /\ pc[w] = "connect"
    /\ \/ /\ thr' = [thr EXCEPT ![w].parser = TRUE]
          /\ pc' = [pc EXCEPT ![w] = "thread_close"]
       \/ \E r \in OriginResponses :
          LET t == relay_loop([thr[w] EXCEPT !.parser = TRUE, !.clientfd = TRUE, !.resp = r])
          IN /\ thr' = [thr EXCEPT ![w] = t]
             /\ pc' = [pc EXCEPT ![w] =
                          IF cacheable(t.totalsize_cache)
                          THEN "ci_lock" ELSE "doit_close"]
    /\ UNCHANGED <<head, heap, total_cache_size, cacheLock, nconn, recency, last_miss>>

\* ---------------------------------------------------------- cache_insert
\* pthread_mutex_lock(&cacheLock)
CacheInsertLock(w) ==
    /\ pc[w] = "ci_lock"
    /\ MutexAvailable(w)
    /\ cacheLock' = w
    /\ pc' = [pc EXCEPT ![w] = "ci_tick"]
    /\ UNCHANGED <<head, heap, total_cache_size, thr, nconn, recency, last_miss>>

\* increase_time()
CacheInsertTick(w) ==
    /\ pc[w] = "ci_tick"
    /\ heap' = increase_time(heap, head)
    /\ pc' = [pc EXCEPT ![w] = "ci_find"]
    /\ UNCHANGED <<head, total_cache_size, cacheLock, thr, nconn, recency, last_miss>>

\* a cache_insert that does not look for the url first
never_present(h, lst, url) == FALSE

\* the presence test of cache_insert
present(h, lst, url) == cache_block_find(h, lst, url) # NULL

\* cache_insert: dropped when the url is found, else new_block is built and the
\* Check full test chooses between cache_block_evict and insert_head
CacheInsertFind(w) ==
    /\ pc[w] = "ci_find"
    /\ LET size == thr[w].totalsize_cache
       IN IF present(heap, head, thr[w].uri)
          THEN /\ cacheLock' = pthread_mutex_unlock(w)
               /\ thr' = [thr EXCEPT ![w] = Returning(thr[w])]
               /\ pc' = [pc EXCEPT ![w] = "doit_close"]
               /\ UNCHANGED heap
          ELSE \E a \in malloc_choices :
               /\ heap' = [heap EXCEPT ![a] =
                              [live |-> TRUE,
                               url |-> thr[w].uri,
                               body |-> SubSeq(thr[w].cachebuf, 1, size),
                               size |-> size,
                               LRU_cnt |-> 0,
                               thread_cnt |-> 1]]
               /\ thr' = [thr EXCEPT ![w].new_block = a]
               /\ pc' = [pc EXCEPT ![w] =
                            IF cache_full(total_cache_size, size)
                            THEN "ci_evict" ELSE "ci_insert_head"]
               /\ UNCHANGED cacheLock
    /\ last_miss' = NoMiss
    /\ UNCHANGED <<head, total_cache_size, nconn, recency>>

\* one turn of the loop of cache_block_evict(size)
CacheBlockEvict(w) ==
    /\ pc[w] = "ci_evict"
    /\ IF ~cache_full(total_cache_size, heap[thr[w].new_block].size)
       THEN /\ pc' = [pc EXCEPT ![w] = "ci_insert_head"]
            /\ UNCHANGED <<head, heap, total_cache_size, recency, thr>>
       ELSE LET LRU_block == LRU_get(heap, head)
            IN IF LRU_block = NULL
               THEN \* head->url with head == NULL
                    /\ pc' = [pc EXCEPT ![w] = "segv"]
                    /\ UNCHANGED <<head, heap, total_cache_size, recency, thr>>
               ELSE /\ head' = unlink(heap, head, LRU_block)
                    /\ total_cache_size' = total_cache_size - heap[LRU_block].size
                    /\ heap' = [heap EXCEPT ![LRU_block] = FreeCell]
                    /\ recency' = SelectSeq(recency, LAMBDA x : x # LRU_block)
                    /\ thr' = [thr EXCEPT ![w].evicted = @ + 1]
                    /\ UNCHANGED pc
    /\ UNCHANGED <<cacheLock, nconn, last_miss>>

\* insert_head(new_block); pthread_mutex_unlock(&cacheLock)
CacheInsertHead(w) ==
    /\ pc[w] = "ci_insert_head"
    /\ head' = <<thr[w].new_block>> \o head
    /\ total_cache_size' = total_cache_size + heap[thr[w].new_block].size
    /\ recency' = Touch(recency, thr[w].new_block)
    /\ cacheLock' = pthread_mutex_unlock(w)
    /\ thr' = [thr EXCEPT ![w] = Returning(thr[w])]
    /\ pc' = [pc EXCEPT ![w] = "doit_close"]
    /\ last_miss' =
          IF head = <<>> /\ thr[w].evicted = 0
          THEN [uri |-> thr[w].uri, resp |-> thr[w].out, reader |-> NULL]
          ELSE NoMiss
    /\ UNCHANGED <<heap, nconn>>

\* ------------------------------------------------------- the end of doit
\* the end of doit: close(clientfd); parser_free(parser)
doit_end(t) == [t EXCEPT !.clientfd = FALSE, !.parser = FALSE]

\* thread, after doit: close(connfd)
thread_end(t) == [t EXCEPT !.connfd = 0]

\* what a thread that is gone has left behind: the slot is free for the next thread
Gone(t) == InitLocals

\* the end of doit: close(clientfd); parser_free(parser); then thread: close(connfd)
DoitClose(w) ==
    /\ pc[w] = "doit_close"
    /\ thr' = [thr EXCEPT ![w] = Gone(thread_end(doit_end(thr[w])))]
    /\ pc' = [pc EXCEPT ![w] = "idle"]
    /\ UNCHANGED <<head, heap, total_cache_size, cacheLock, nconn, recency, last_miss>>

\* after a return inside doit, thread: close(connfd); return NULL
ThreadClose(w) ==
    /\ pc[w] = "thread_close"
    /\ thr' = [thr EXCEPT ![w] = Gone(thread_end(thr[w]))]
    /\ pc' = [pc EXCEPT ![w] = "idle"]
    /\ UNCHANGED <<head, heap, total_cache_size, cacheLock, nconn, recency, last_miss>>

\* a step of thread w
WorkerStep(w) ==
    \/ ReadRequest(w)
    \/ CacheCheckLock(w)
    \/ CacheCheckTick(w)
    \/ CacheCheckFind(w)
    \/ HitWrite(w)
    \/ HitLoad(w)
    \/ HitStore(w)
    \/ Connect(w)
    \/ CacheInsertLock(w)
    \/ CacheInsertTick(w)
    \/ CacheInsertFind(w)
    \/ CacheBlockEvict(w)
    \/ CacheInsertHead(w)
    \/ DoitClose(w)
    \/ ThreadClose(w)

Next == Accept \/ \E w \in Workers : WorkerStep(w)

Spec == Init /\ [][Next]_vars

NextSeq == AcceptSeq \/ \E w \in Workers : WorkerStep(w)

\* the proxy under clients that come one after the other
SpecSeq == Init /\ [][NextSeq]_vars

\* ================================================================ properties
RECURSIVE SumSizes(_, _)
SumSizes(h, lst) == IF lst = <<>> THEN 0 ELSE h[Head(lst)].size + SumSizes(h, Tail(lst))

Urls(h, lst) == {h[lst[i]].url : i \in 1..Len(lst)}

LookupCS == {"cc_tick", "cc_find"}
InsertCS == {"ci_tick", "ci_find", "ci_evict", "ci_insert_head"}
Streaming == {"hit_write", "hit_load", "hit_store"}
NetworkIO == {"doit", "hit_write", "connect"}

\* a step of cache_insert or of its eviction loop, taken by thread v
InsertStep(v) ==
    CacheInsertTick(v) \/ CacheInsertFind(v) \/ CacheBlockEvict(v) \/ CacheInsertHead(v)

\* C1: in every reachable state, so each time a cache_insert returns, the sizes of
\* the entries of the store sum up to total_cache_size and to at most MAX_CACHE_SIZE
C1_Capacity ==
    /\ SumSizes(heap, head) <= MAX_CACHE_SIZE
    /\ total_cache_size <= MAX_CACHE_SIZE
    /\ (\A w \in Workers : pc[w] \notin InsertCS) => total_cache_size = SumSizes(heap, head)

\* a cache_insert has just returned after removing an entry, and the store holds
\* the new entry next to one that stayed
C1_Witness ==
    \E w \in Workers :
        /\ pc[w] = "doit_close"
        /\ thr[w].evicted >= 1
        /\ Len(head) >= 2

\* C2: no two entries of the store have the same url
C2_Uniqueness ==
    \A i, j \in 1..Len(head) : i # j => heap[head[i]].url # heap[head[j]].url

\* a thread that missed on a url is inside cache_insert for it while the store
\* holds an entry with that url, put there by another thread that missed as well
C2_Witness ==
    \E w \in Workers :
        /\ pc[w] = "ci_find"
        /\ thr[w].uri \in Urls(heap, head)

\* C3: at most one thread is between the lock and the unlock of cache_check or
\* cache_insert, and while a thread is inside the tick, search and reset of its
\* lookup no other thread takes a step of cache_insert or of the eviction loop
C3_MutualExclusion ==
    /\ [](\A w, v \in Workers :
            (w # v /\ pc[w] \in LookupCS \cup InsertCS) => pc[v] \notin LookupCS \cup InsertCS)
    /\ [][\A w, v \in Workers :
            (w # v /\ pc[w] \in LookupCS) => ~InsertStep(v)]_vars

\* a thread is between the tick and the search of its lookup while another thread
\* waits in cache_insert for the lock
C3_Witness ==
    \E w, v \in Workers :
        /\ pc[w] = "cc_find"
        /\ pc[v] = "ci_lock"
        /\ cacheLock = w

\* C4: the block a thread got a hit on is not released while that thread is
\* between thread_cnt + 1 and thread_cnt - 1 of cache_check
C4_NoUseAfterFree ==
    \A w \in Workers : pc[w] \in Streaming => heap[thr[w].block].live

\* C5: every entry the eviction loop removes is the one whose last access, its
\* insertion or its latest hit, is the oldest of the entries in the store
C5_LRU ==
    [][\A a \in ListSet(head) :
          a \notin ListSet(head') => a = recency[Len(recency)]]_vars

\* the eviction loop is about to remove an entry, and the least recently accessed
\* entry is not the oldest of the list, because that one was hit since
C5_Witness ==
    \E w \in Workers :
        /\ pc[w] = "ci_evict"
        /\ cache_full(total_cache_size, heap[thr[w].new_block].size)
        /\ Len(head) >= 2
        /\ recency[Len(recency)] # head[Len(head)]

\* C6: cache_check reports a hit for uri, and cache_insert drops an insert of uri
\* as present, only when an entry of the store has exactly the url uri
C6_ExactKeyMatching ==
    [][\A w \in Workers :
          /\ (pc[w] = "cc_find" /\ pc'[w] = "hit_write")
                => heap[thr'[w].block].url = thr[w].uri
          /\ (pc[w] = "ci_find" /\ pc'[w] = "doit_close")
                => thr[w].uri \in Urls(heap, head)]_vars

\* what a lookup of url delivers in the store (h, lst): the body of the block
\* cache_check finds after its tick, <<>> marking a miss
Delivered(h, lst, url) ==
    LET b == cache_block_find(increase_time(h, lst), lst, url)
    IN IF b = NULL THEN [hit |-> FALSE, body |-> <<>>]
       ELSE [hit |-> TRUE, body |-> SubSeq(h[b].body, 1, h[b].size)]

\* C7: when cache_insert(uri, B) returns and the store held no entry with the url
\* uri when it was called, a lookup of uri is a hit that delivers B
C7_RoundTrip ==
    [][\A w \in Workers :
          (/\ pc[w] \in {"ci_find", "ci_insert_head"}
           /\ pc'[w] = "doit_close"
           /\ thr[w].uri \notin Urls(heap, head))
          => Delivered(heap', head', thr[w].uri) =
                [hit |-> TRUE,
                 body |-> SubSeq(thr[w].cachebuf, 1, thr[w].totalsize_cache)]]_vars

\* what a duplicate insert has to leave alone: the list, the counter and the url,
\* body and size of every entry
SameStore ==
    /\ head' = head
    /\ total_cache_size' = total_cache_size
    /\ \A a \in ListSet(head) :
          /\ heap'[a].url = heap[a].url
          /\ heap'[a].body = heap[a].body
          /\ heap'[a].size = heap[a].size

\* C8, the part about the store: the steps of a cache_insert(uri, B2) that finds an
\* entry with the url uri leave the store as it is
C8_StoreUnchanged ==
    [][\A w \in Workers :
          (/\ pc[w] \in {"ci_tick", "ci_find"}
           /\ pc'[w] # pc[w]
           /\ thr[w].uri \in Urls(heap, head))
          => SameStore /\ pc'[w] \in {"ci_find", "doit_close"}]_vars

\* C8: a cache_insert(uri, B2) that finds an entry with the url uri leaves the
\* store as it is, and a lookup of uri then delivers the body of that entry
C8_IdempotentDuplicate ==
    [][\A w \in Workers :
          (/\ pc[w] = "ci_find"
           /\ pc'[w] # pc[w]
           /\ thr[w].uri \in Urls(heap, head))
          => /\ SameStore
             /\ pc'[w] = "doit_close"
             /\ \E a \in ListSet(head) :
                   /\ heap[a].url = thr[w].uri
                   /\ Delivered(heap', head', thr[w].uri) =
                         [hit |-> TRUE, body |-> heap[a].body]]_vars

\* C9: a thread that writes the list, the counter or a block holds cacheLock
C9_WritesUnderLock ==
    [][\A w \in Workers :
          (WorkerStep(w) /\ <<head, heap, total_cache_size>>' # <<head, heap, total_cache_size>>)
          => cacheLock = w]_vars

\* C10: a thread that reads the request, writes to the client, connects to the
\* origin or talks to it does not hold cacheLock
C10_NoLockAcrossIO ==
    \A w \in Workers : pc[w] \in NetworkIO => cacheLock # w

\* a thread streams a cached body to its client while another thread holds the lock
C10_Witness ==
    \E w, v \in Workers :
        /\ pc[w] = "hit_write"
        /\ cacheLock = v
        /\ v # w

\* ------------------------------------------------------------- scheduling
\* connections accepted in a run that is checked for progress
MaxFairConn == 2

AcceptFair == nconn < MaxFairConn /\ Dispatch

NextFair == AcceptFair \/ \E w \in Workers : WorkerStep(w)

\* thread w asks for the mutex of the cache, in cache_check or in cache_insert
LockStep(w) == CacheCheckLock(w) \/ CacheInsertLock(w)

\* thread w runs code of the cache between lock and unlock
CacheStep(w) ==
    \/ CacheCheckTick(w)
    \/ CacheCheckFind(w)
    \/ CacheInsertTick(w)
    \/ CacheInsertFind(w)
    \/ CacheBlockEvict(w)
    \/ CacheInsertHead(w)

\* what the scheduler owes a thread: a thread that runs code of the cache between
\* lock and unlock is given the processor, and a thread that waits for the mutex
\* while it stays free gets it.  Nothing is owed to main's accept or to a thread
\* inside rio_readlineb, rio_writen, open_clientfd or rio_readnb: the peer may stay
\* silent for ever.
Fairness ==
    \A w \in Workers :
        /\ WF_vars(LockStep(w))
        /\ WF_vars(CacheStep(w))

\* the proxy under a fair scheduler, with peers that may block a thread for ever
SpecFair == Init /\ [][NextFair]_vars /\ Fairness

\* the thread is inside cache_check or cache_insert: it waits for the mutex or is
\* between lock and unlock
InCacheOp == {"cc_lock", "ci_lock"} \cup LookupCS \cup InsertCS

\* C11: under fair scheduling a thread that enters cache_check or cache_insert
\* leaves the part of it between lock and unlock, with the mutex released by it, on
\* the hit, miss, duplicate and insert paths, whatever the threads blocked on
\* sockets do
C11_Progress ==
    \A w \in Workers :
        (pc[w] \in InCacheOp) ~> (pc[w] \notin InCacheOp /\ cacheLock # w)

\* a thread has left cache_insert after storing an entry, the mutex is free, and
\* the other thread is still blocked on the origin's socket
C11_Witness ==
    \E w, v \in Workers :
        /\ pc[w] = "doit_close"
        /\ head # <<>>
        /\ pc[v] = "connect"
        /\ cacheLock = NULL

\* C12: a response longer than MAX_OBJECT_SIZE never reaches cache_insert, so it
\* changes nothing of the store: the handler that relayed it is at the close of its
\* descriptors, and no block, in the list or about to be linked, is larger than
\* MAX_OBJECT_SIZE
C12_OversizeRejection ==
    /\ \A w \in Workers :
          thr[w].totalsize_cache > MAX_OBJECT_SIZE => pc[w] = "doit_close"
    /\ \A a \in Addr :
          heap[a].live => heap[a].size <= MAX_OBJECT_SIZE /\ Len(heap[a].body) = heap[a].size

\* a handler has relayed a response that is too long and is past the test, while
\* the store holds an entry
C12_Witness ==
    \E w \in Workers :
        /\ pc[w] = "doit_close"
        /\ thr[w].totalsize_cache = MAX_OBJECT_SIZE + 1
        /\ Len(thr[w].out) = MAX_OBJECT_SIZE + 1
        /\ head # <<>>

\* C13: when a handler has missed on uri, relayed a response R of at most
\* MAX_OBJECT_SIZE bytes and inserted it into the empty store, and the next cache
\* operation is the lookup of a request for the same uri, then that lookup is a hit,
\* its handler writes exactly R to the client, and it has neither parsed the uri
\* for the origin nor opened a connection to it
C13_HitWithoutOrigin ==
    [][\A w \in Workers :
          /\ (/\ pc[w] = "cc_find" /\ pc'[w] # "cc_find"
              /\ last_miss.reader = NULL /\ last_miss.uri # <<>> /\ last_miss.uri = thr[w].uri)
                => pc'[w] = "hit_write"
          /\ (pc[w] = "hit_write" /\ pc'[w] = "hit_load" /\ last_miss.reader = w)
                => /\ thr'[w].out = last_miss.resp
                   /\ ~thr'[w].clientfd
                   /\ ~thr'[w].parser]_vars

\* the request that follows the miss has been served from the store with a body of
\* the largest cacheable size
C13_Witness ==
    \E w \in Workers :
        /\ pc[w] = "hit_load"
        /\ last_miss.reader = w
        /\ thr[w].out = last_miss.resp
        /\ Len(last_miss.resp) = MAX_OBJECT_SIZE

\* a request line doit has to turn down: fewer than three tokens, or a method that
\* is not GET in any case of its letters
Rejected(t) == t.ntok # 0 /\ (t.ntok < 3 \/ t.method \notin {"GET", "get"})

\* C14: a handler whose request line has fewer than three tokens or another method
\* than GET has written the one error page, 400 or 501, and is at the close of the
\* client descriptor: it holds no lock, no block, no parser and no origin
\* descriptor, it never waits for or runs a cache operation, and its steps leave
\* the store as it is
C14_RejectedRequests ==
    /\ [](\A w \in Workers :
            /\ Rejected(thr[w]) =>
                  /\ pc[w] = "thread_close"
                  /\ thr[w].out = (IF thr[w].ntok < 3 THEN <<400>> ELSE <<501>>)
                  /\ cacheLock # w
                  /\ thr[w].block = NULL /\ thr[w].new_block = NULL
                  /\ ~thr[w].parser /\ ~thr[w].clientfd
            /\ pc[w] = "cc_lock" => thr[w].ntok = 3 /\ thr[w].method \in {"GET", "get"})
    /\ [][\A w \in Workers :
            ((Rejected(thr[w]) \/ Rejected(thr'[w])) /\ pc'[w] # pc[w])
               => UNCHANGED <<head, heap, total_cache_size, cacheLock, recency, last_miss>>]_vars

\* a handler has answered a POST with 501 while the store holds an entry
C14_Witness ==
    \E w \in Workers :
        /\ pc[w] = "thread_close"
        /\ thr[w].method = "POST"
        /\ thr[w].out = <<501>>
        /\ head # <<>>

\* what the locals t still hold: an open client descriptor, an open origin
\* descriptor, a parser, the cell main allocated for the descriptor
Held(t) ==
    (IF t.connfd # 0 THEN {"connfd"} ELSE {})
    \cup (IF t.clientfd THEN {"clientfd"} ELSE {})
    \cup (IF t.parser THEN {"parser"} ELSE {})
    \cup (IF t.fdpointer # 0 THEN {"fdpointer"} ELSE {})

\* C15: when a thread ends, after the end of doit and thread's close or after a
\* return inside doit and thread's close, it holds nothing any more: the client
\* descriptor and the origin descriptor are closed, the parser and the cell that
\* carried the descriptor are released
C15_Cleanup ==
    [][\A w \in Workers :
          /\ (pc[w] = "doit_close" /\ pc'[w] = "idle")
                => Held(thread_end(doit_end(thr[w]))) = {}
          /\ (pc[w] = "thread_close" /\ pc'[w] = "idle")
                => Held(thread_end(thr[w])) = {}]_vars

\* C15, per resource: the descriptors are closed when a thread ends
C15_DescriptorsClosed ==
    [][\A w \in Workers :
          /\ (pc[w] = "doit_close" /\ pc'[w] = "idle")
                => Held(thread_end(doit_end(thr[w]))) \cap {"connfd", "clientfd"} = {}
          /\ (pc[w] = "thread_close" /\ pc'[w] = "idle")
                => Held(thread_end(thr[w])) \cap {"connfd", "clientfd"} = {}]_vars

\* C15, per resource: the parser is released when a thread ends
C15_ParserFreed ==
    [][\A w \in Workers :
          /\ (pc[w] = "doit_close" /\ pc'[w] = "idle")
                => "parser" \notin Held(thread_end(doit_end(thr[w])))
          /\ (pc[w] = "thread_close" /\ pc'[w] = "idle")
                => "parser" \notin Held(thread_end(thr[w]))]_vars

\* the threads main has created and that have not ended
Alive == Workers \ Idle

\* C16: main waits for no thread: whatever the threads do, whether they hold the
\* mutex, wait for it or are blocked on a socket, main can accept the next connection
\* and create its thread as long as the run has connections and thread slots left;
\* and every thread works on the descriptor main accepted for it, which no other
\* thread works on
C16_AcceptorNeverWaits ==
    /\ (nconn < MaxConn /\ Idle # {}) => ENABLED Accept
    /\ \A w \in Alive :
          /\ thr[w].fdpointer # 0
          /\ pc[w] # "doit" => thr[w].connfd = thr[w].fdpointer
          /\ \A v \in Alive : v # w => thr[v].fdpointer # thr[w].fdpointer

\* a connection was accepted and its thread created while an earlier thread is
\* inside its handler, blocked on the origin, and both work on their own descriptor
C16_Witness ==
    \E w, v \in Workers :
        /\ pc[v] = "connect"
        /\ pc[w] = "cc_lock"
        /\ thr[w].connfd # 0
        /\ thr[w].connfd # thr[v].connfd
        /\ nconn >= 2

\* C17: the eviction loop of a cache_insert never asks LRU_get for a block of an
\* empty list; each of its turns that removes a block makes the list shorter; when
\* it is left the new block fits; and under a fair scheduler it is left
C17_EvictionTerminates ==
    /\ [](\A w \in Workers :
            /\ pc[w] # "segv"
            /\ (/\ pc[w] = "ci_evict"
                /\ total_cache_size + heap[thr[w].new_block].size > MAX_CACHE_SIZE)
                  => head # <<>>)
    /\ [][\A w \in Workers :
            /\ (CacheBlockEvict(w) /\ pc'[w] = "ci_evict") => Len(head') < Len(head)
            /\ (CacheBlockEvict(w) /\ pc'[w] = "ci_insert_head")
                  => total_cache_size' + heap[thr[w].new_block].size <= MAX_CACHE_SIZE]_vars
    /\ \A w \in Workers : (pc[w] = "ci_evict") ~> (pc[w] = "ci_insert_head")

\* the eviction loop has been left after a removal, and the new block fits
C17_Witness ==
    \E w \in Workers :
        /\ pc[w] = "ci_insert_head"
        /\ thr[w].evicted >= 1
        /\ total_cache_size + heap[thr[w].new_block].size <= MAX_CACHE_SIZE

\* thread w takes the step from pc value p to pc value q
Moves(w, p, q) == pc[w] = p /\ pc'[w] = q

\* C18: every lookup and every insert passes its tick once, right after the lock;
\* the tick raises LRU_cnt of every block of the list by exactly 1; no other step
\* changes LRU_cnt of a block that stays in the list, but the hit, which sets the
\* counter of the block found to 0; a miss and a dropped insert end with no counter
\* at 0, and an insert that stores ends with the new block at 0 and no other
C18_RecencyClock ==
    [][/\ \A w \in Workers : pc'[w] # pc[w] =>
          /\ pc[w] = "cc_lock" => pc'[w] = "cc_tick"
          /\ pc[w] = "ci_lock" => pc'[w] = "ci_tick"
          /\ (Moves(w, "cc_tick", "cc_find") \/ Moves(w, "ci_tick", "ci_find"))
                => /\ head' = head
                   /\ \A a \in ListSet(head) : heap'[a].LRU_cnt = heap[a].LRU_cnt + 1
          /\ Moves(w, "cc_find", "hit_write")
                => /\ thr'[w].block \in ListSet(head)
                   /\ \A a \in ListSet(head) :
                         heap'[a].LRU_cnt =
                            IF a = thr'[w].block THEN 0 ELSE heap[a].LRU_cnt
                   /\ \A a \in ListSet(head) \ {thr'[w].block} : heap'[a].LRU_cnt >= 1
          /\ (Moves(w, "cc_find", "connect") \/ Moves(w, "ci_find", "doit_close"))
                => \A a \in ListSet(head') :
                      heap'[a].LRU_cnt = heap[a].LRU_cnt /\ heap'[a].LRU_cnt >= 1
          /\ Moves(w, "ci_insert_head", "doit_close")
                => /\ heap'[head'[1]].LRU_cnt = 0
                   /\ \A a \in ListSet(head) :
                         heap'[a].LRU_cnt = heap[a].LRU_cnt /\ heap'[a].LRU_cnt >= 1
       /\ (heap' # heap /\ \A v \in Workers :
                                pc'[v] = pc[v] \/ pc[v] \notin {"cc_tick", "ci_tick", "cc_find"})
             => \A a \in ListSet(head) \cap ListSet(head') :
                   heap'[a].LRU_cnt = heap[a].LRU_cnt]_vars

\* after a lookup that hit, the block found is at 0 and another block of the list
\* has been raised by the ticks of two operations or more
C18_Witness ==
    \E w \in Workers :
        /\ pc[w] = "hit_write"
        /\ heap[thr[w].block].live
        /\ heap[thr[w].block].LRU_cnt = 0
        /\ \E a \in ListSet(head) : heap[a].LRU_cnt >= 2

\* C19: a block leaves the list only in a turn of the eviction loop of a
\* cache_insert whose new block does not fit at that moment, one block per turn;
\* no step of cache_check and no other step of cache_insert removes one; a
\* cache_insert whose block fits when it is tested removes none; and insert_head
\* puts the new block in front of the list as it was
C19_EvictOnlyForSpace ==
    [][/\ (head' # head /\ ListSet(head) \ ListSet(head') # {})
             => \E w \in Workers :
                   /\ pc' = pc
                   /\ pc[w] = "ci_evict"
                   /\ cacheLock = w
                   /\ total_cache_size + heap[thr[w].new_block].size > MAX_CACHE_SIZE
                   /\ Cardinality(ListSet(head) \ ListSet(head')) = 1
                   /\ Len(head') = Len(head) - 1
       /\ \A w \in Workers : pc'[w] # pc[w] =>
          /\ (/\ pc[w] = "ci_find"
              /\ total_cache_size + thr[w].totalsize_cache <= MAX_CACHE_SIZE)
                => pc'[w] \in {"ci_insert_head", "doit_close"}
          /\ pc[w] = "ci_evict"
                => /\ pc'[w] = "ci_insert_head"
                   /\ head' = head
                   /\ total_cache_size + heap[thr[w].new_block].size <= MAX_CACHE_SIZE
          /\ Moves(w, "ci_insert_head", "doit_close")
                => /\ head' = <<thr[w].new_block>> \o head
                   /\ (thr[w].evicted = 0
                          \/ total_cache_size + heap[thr[w].new_block].size <= MAX_CACHE_SIZE)]_vars

\* an insert that had to remove one block, and only one, has put its block in front
\* of a block that stayed
C19_Witness ==
    \E w \in Workers :
        /\ pc[w] = "doit_close"
        /\ thr[w].evicted = 1
        /\ Len(head) >= 2
        /\ total_cache_size = MAX_CACHE_SIZE

\* the locals of thread w when open_clientfd has succeeded and the origin is about
\* to send the response r
Relaying(w, r) == [thr[w] EXCEPT !.parser = TRUE, !.clientfd = TRUE, !.resp = r]

Readers(a) == {w \in Workers : pc[w] \in Streaming /\ thr[w].block = a}

\* C21: thread_cnt counts the threads that stream a block: a block of the list that
\* no thread is streaming has the thread_cnt cache_insert gave it, 1, whatever the
\* order in which the threads that hit it took their steps
C21_ThreadCntTracksReaders ==
    \A a \in ListSet(head) : Readers(a) = {} => heap[a].thread_cnt = 1

\* C22: no two blocks of the list have the same LRU_cnt, in every state the calls of
\* cache_check and cache_insert reach; so whenever the eviction loop may call
\* LRU_get, the block it returns has an LRU_cnt larger than that of every other
\* block, and the order in which LRU_get scans equal counters decides nothing
C22_DistinctRecency ==
    [](/\ \A a, b \in ListSet(head) : a # b => heap[a].LRU_cnt # heap[b].LRU_cnt
       /\ \A w \in Workers :
             (pc[w] = "ci_evict" /\ head # <<>>) =>
                 \A b \in ListSet(head) \ {LRU_get(heap, head)} :
                     heap[b].LRU_cnt < heap[LRU_get(heap, head)].LRU_cnt)

\* the eviction loop is about to call LRU_get on a list of two blocks with two
\* different counters
C22_Witness ==
    \E w \in Workers :
        /\ pc[w] = "ci_evict"
        /\ total_cache_size + heap[thr[w].new_block].size > MAX_CACHE_SIZE
        /\ Len(head) = 2
        /\ Cardinality({heap[a].LRU_cnt : a \in ListSet(head)}) = 2

====
